---- MODULE Spec2Model ----
(***************************************************************************)
(* State machine of the moodify browser client (App.jsx and                *)
(* RecommendationsList.jsx): the React state of App, the requests that are *)
(* in flight to the recommender service, and one action per event handler  *)
(* or promise continuation.  A track is represented by its identifier.     *)
(***************************************************************************)
EXTENDS Integers, Sequences, FiniteSets, Bags, TLC

\* ---------------------------------------------------------------- bounds
NumIds == 3        \* track identifiers the service can hand out
MaxLen == 2        \* longest list the service returns for one generation
MaxEvents == 4     \* user events (generate, reject, add to queue, drag) in one behaviour

Ids == 1..NumIds
NoId == 0          \* absent identifier: `over` is null, no current song

VARIABLES
    location,           \* the session parameter of window.location: "" when none
    storage,            \* sessionStorage's session_id: "" when none
    mounted,            \* App has rendered for the first time
    sessionId,          \* useState(getSessionId): "" when null
    currentSong,        \* useState(null): NoId or the id of the current song
    recommendations,    \* useState([]): sequence of track ids
    recentlyPlayedIds,  \* useState([])
    replacingIds,       \* useState(new Set())
    isLoadingSong,
    isLoadingRecs,
    isAddingToQueue,
    addedToQueue,
    error,              \* useState(null): "" when null, else the message kind
    songReq,            \* getCurrentSong request: "unsent", "pending", "done"
    genReqs,            \* number of getRecommendations requests in flight
    rejectReqs,         \* rejectTrack requests in flight (a bag)
    queueReqs,          \* addToQueue requests in flight (a bag)
    queueAccepted,      \* track_ids of the last request the external queue accepted
    nEvents,            \* user events handled so far
    last                \* the handler or continuation that ran last

vars == <<location, storage, mounted, sessionId, currentSong, recommendations, recentlyPlayedIds, replacingIds,
          isLoadingSong, isLoadingRecs, isAddingToQueue, addedToQueue, error,
          songReq, genReqs, rejectReqs, queueReqs, queueAccepted,
          nEvents, last>>

\* what getSessionId reads and writes besides the state of App
browser == <<location, storage, mounted>>

\* ---------------------------------------------------------------- helpers
Range(s) == {s[i] : i \in 1..Len(s)}

NoDup(s) == \A i, j \in 1..Len(s) : i # j => s[i] # s[j]

SeqsUpTo(S, n) == UNION {[1..k -> S] : k \in 0..n}

\* Array.prototype.findIndex(s => s.id === id): first 0-based index, or -1
findIndex(s, id) ==
    IF id \in Range(s)
    THEN (CHOOSE i \in 1..Len(s) : s[i] = id /\ \A j \in 1..(i-1) : s[j] # id) - 1
    ELSE -1

\* Array.prototype.splice(start, 1) on s: the remaining array (0-based start,
\* a negative start counts from the end)
spliceOut(s, start) ==
    LET n == Len(s)
        k == IF start < 0 THEN (IF n + start < 0 THEN 0 ELSE n + start)
             ELSE (IF start > n THEN n ELSE start)
    IN  IF k >= n THEN s
        ELSE [i \in 1..(n-1) |-> IF i <= k THEN s[i] ELSE s[i+1]]

\* the element splice(start, 1) removes ([0] of its result)
spliceItem(s, start) ==
    LET n == Len(s)
        k == IF start < 0 THEN (IF n + start < 0 THEN 0 ELSE n + start)
             ELSE (IF start > n THEN n ELSE start)
    IN  s[k+1]

\* Array.prototype.splice(start, 0, item) on s
spliceIn(s, start, item) ==
    LET n == Len(s)
        k == IF start < 0 THEN (IF n + start < 0 THEN 0 ELSE n + start)
             ELSE (IF start > n THEN n ELSE start)
    IN  [i \in 1..(n+1) |-> IF i <= k THEN s[i] ELSE IF i = k+1 THEN item ELSE s[i-1]]

\* a move that takes the element out and never puts it back
arrayMoveDrop(array, from, to) == spliceOut(array, from)

\* arrayMove(array, from, to) of @dnd-kit/sortable:
\*   newArray.splice(to < 0 ? newArray.length + to : to, 0, newArray.splice(from, 1)[0])
\* the insertion index is computed before the element is taken out
arrayMove(array, from, to) ==
    LET target == IF to < 0 THEN Len(array) + to ELSE to
    IN  spliceIn(spliceOut(array, from), target, spliceItem(array, from))

\* a replacement that is appended when the rejected track is gone
replaceOrAppend(prev, trackId, replacement) ==
    IF trackId \in Range(prev)
    THEN [i \in 1..Len(prev) |-> IF prev[i] = trackId THEN replacement ELSE prev[i]]
    ELSE Append(prev, replacement)

\* prev.map((r) => (r.id === trackId ? data.replacement : r))
replaceById(prev, trackId, replacement) ==
    [i \in 1..Len(prev) |-> IF prev[i] = trackId THEN replacement ELSE prev[i]]

\* a set operation that takes the identifier out when it is already there
setToggle(prev, trackId) ==
    IF trackId \in prev THEN prev \ {trackId} ELSE prev \cup {trackId}

\* new Set([...prev, trackId])
setAdd(prev, trackId) == prev \cup {trackId}

\* a finally that leaves the set as it was
setKeep(prev, trackId) == prev

\* const next = new Set(prev); next.delete(trackId)
setDelete(prev, trackId) == prev \ {trackId}

\* ---------------------------------------------------------------- the service
\* POST /api/recommend answers with an ordered list of distinct tracks
RecommendAnswers == {s \in SeqsUpTo(Ids, MaxLen) : NoDup(s)}

\* recently_played_ids of the answer: absent (undefined) or a list; the list
\* is empty, a track in it would only narrow the replacements of RejectAnswers
RecentAnswers == {[present |-> FALSE, ids |-> <<>>],
                  [present |-> TRUE, ids |-> <<>>]}

\* data.recently_played_ids ?? []
orEmpty(rp) == IF rp.present THEN rp.ids ELSE <<>>

\* POST /api/reject answers with a track that is neither the rejected one nor
\* among current_recommendations nor among recently_played_ids, or fails (NoId).
\* The answer depends on the request body alone.
RejectAnswers(trackId, currentIds, recentlyPlayed) ==
    (Ids \ ({trackId} \cup Range(currentIds) \cup Range(recentlyPlayed))) \cup {NoId}

\* a request in flight: the rejected id, the answer the service gives to its
\* body, whether a reorder has changed the index of the rejected track since
\* it was sent and whether a generation was triggered since
RejectReq(trackId, answer) ==
    [trackId |-> trackId, answer |-> answer, moved |-> FALSE, stale |-> FALSE]

\* the requests in flight, all marked as sent before the latest generation
markStale(reqs) ==
    LET marked == {[r EXCEPT !.stale = TRUE] : r \in BagToSet(reqs)}
    IN  [m \in marked |-> CopiesIn(m, reqs) + CopiesIn([m EXCEPT !.stale = FALSE], reqs)]

\* the requests in flight after a reorder from old to new, those whose track
\* stands at another index marked as moved
markMoved(reqs, old, new) ==
    LET shifted(r) == findIndex(old, r.trackId) # findIndex(new, r.trackId)
        marked == {IF shifted(r) THEN [r EXCEPT !.moved = TRUE] ELSE r :
                      r \in BagToSet(reqs)}
    IN  [m \in marked |->
            CopiesIn(m, reqs)
               + (IF m.moved /\ shifted(m)
                  THEN CopiesIn([m EXCEPT !.moved = FALSE], reqs) ELSE 0)]

\* ---------------------------------------------------------------- Init
\* a tab about to render App: tabs holds the pairs of the URL's session
\* parameter and the token in sessionStorage the tab can start with
InitWith(tabs) ==
    /\ \E tab \in tabs : location = tab[1] /\ storage = tab[2]
    /\ mounted = FALSE
    /\ sessionId = ""
    /\ currentSong = NoId
    /\ recommendations = <<>>
    /\ recentlyPlayedIds = <<>>
    /\ replacingIds = {}
    /\ isLoadingSong = FALSE
    /\ isLoadingRecs = FALSE
    /\ isAddingToQueue = FALSE
    /\ addedToQueue = FALSE
    /\ error = ""
    /\ songReq = "unsent"
    /\ genReqs = 0
    /\ rejectReqs = EmptyBag
    /\ queueReqs = EmptyBag
    /\ queueAccepted = <<>>
    /\ nEvents = 0
    /\ last = [op |-> "init", hit |-> FALSE, stale |-> FALSE,
                moved |-> FALSE]

\* a fresh tab: nothing persisted
Init == InitWith({<<"", "">>, <<"tok", "">>})

\* a tab that may have been logged in before: a reload, or a return from the
\* login with a new token in the URL while an older one is stored
InitSession == InitWith({<<"", "">>, <<"tok", "">>, <<"", "tok">>, <<"tok", "old">>})

\* what the render shows
LoggedIn == sessionId # ""
ListShown == LoggedIn /\ Len(recommendations) > 0

\* ---------------------------------------------------------------- session
\* a getSessionId that prefers the persisted token to the URL's
getSessionIdStoredFirst ==
    /\ ~mounted
    /\ mounted' = TRUE
    /\ IF storage # ""
       THEN /\ sessionId' = storage
            /\ UNCHANGED <<storage, location>>
       ELSE /\ sessionId' = location
            /\ storage' = location
            /\ location' = ""
    /\ last' = [op |-> "getSessionId",
                hit |-> (location # "" /\ storage # ""),
                stale |-> FALSE, moved |-> FALSE]
    /\ UNCHANGED <<currentSong, recommendations, recentlyPlayedIds,
                   replacingIds, isLoadingSong, isLoadingRecs, isAddingToQueue,
                   addedToQueue, error, songReq, genReqs, rejectReqs, queueReqs,
                   queueAccepted, nEvents>>

\* useState(getSessionId) on the first render: a session parameter in the URL
\* is stored, removed from the URL (replaceState) and returned; without one
\* the stored token, or null, is returned
getSessionId ==
    /\ ~mounted
    /\ mounted' = TRUE
    /\ IF location # ""
       THEN /\ sessionId' = location
            /\ storage' = location
            /\ location' = ""
       ELSE /\ sessionId' = storage
            /\ UNCHANGED <<storage, location>>
    /\ last' = [op |-> "getSessionId",
                hit |-> (location # "" /\ storage # ""),
                stale |-> FALSE, moved |-> FALSE]
    /\ UNCHANGED <<currentSong, recommendations, recentlyPlayedIds,
                   replacingIds, isLoadingSong, isLoadingRecs, isAddingToQueue,
                   addedToQueue, error, songReq, genReqs, rejectReqs, queueReqs,
                   queueAccepted, nEvents>>

\* ---------------------------------------------------------------- current song
\* an effect that sends the request without looking at sessionId
fetchCurrentSongAlways ==
    /\ mounted
    /\ songReq = "unsent"
    /\ isLoadingSong' = TRUE
    /\ songReq' = "pending"
    /\ last' = [op |-> "fetchCurrentSong", hit |-> FALSE, stale |-> FALSE,
                moved |-> FALSE]
    /\ UNCHANGED <<browser, sessionId, currentSong, recommendations, recentlyPlayedIds,
                   replacingIds, isLoadingRecs, isAddingToQueue, addedToQueue, error,
                   genReqs, rejectReqs, queueReqs, queueAccepted,
                   nEvents>>

\* the effect after the first render: if (!sessionId) return; the request is sent
fetchCurrentSong ==
    /\ mounted
    /\ LoggedIn
    /\ songReq = "unsent"
    /\ isLoadingSong' = TRUE
    /\ songReq' = "pending"
    /\ last' = [op |-> "fetchCurrentSong", hit |-> FALSE, stale |-> FALSE,
                moved |-> FALSE]
    /\ UNCHANGED <<browser, sessionId, currentSong, recommendations, recentlyPlayedIds,
                   replacingIds, isLoadingRecs, isAddingToQueue, addedToQueue, error,
                   genReqs, rejectReqs, queueReqs, queueAccepted,
                   nEvents>>

fetchCurrentSongOk ==
    /\ songReq = "pending"
    /\ \E song \in {NoId, 1} : currentSong' = song
    /\ isLoadingSong' = FALSE
    /\ songReq' = "done"
    /\ last' = [op |-> "setCurrentSong", hit |-> FALSE, stale |-> FALSE,
                moved |-> FALSE]
    /\ UNCHANGED <<browser, sessionId, recommendations, recentlyPlayedIds,
                   replacingIds, isLoadingRecs, isAddingToQueue, addedToQueue, error,
                   genReqs, rejectReqs, queueReqs, queueAccepted,
                   nEvents>>

fetchCurrentSongFail ==
    /\ songReq = "pending"
    /\ error' = "song"
    /\ isLoadingSong' = FALSE
    /\ songReq' = "done"
    /\ last' = [op |-> "failCurrentSong", hit |-> FALSE, stale |-> FALSE,
                moved |-> FALSE]
    /\ UNCHANGED <<browser, sessionId, currentSong, recommendations, recentlyPlayedIds,
                   replacingIds, isLoadingRecs, isAddingToQueue, addedToQueue,
                   genReqs, rejectReqs, queueReqs, queueAccepted,
                   nEvents>>

\* ---------------------------------------------------------------- generation
\* a generate button that is never disabled
handleGenerateAlways ==
    /\ LoggedIn
    /\ currentSong # NoId
    /\ nEvents < MaxEvents
    /\ error' = ""
    /\ isLoadingRecs' = TRUE
    /\ addedToQueue' = FALSE
    /\ recommendations' = <<>>
    /\ genReqs' = genReqs + 1
    /\ rejectReqs' = markStale(rejectReqs)
    /\ nEvents' = nEvents + 1
    /\ last' = [op |-> "generate", hit |-> FALSE, stale |-> FALSE,
                moved |-> FALSE]
    /\ UNCHANGED <<browser, sessionId, currentSong, recentlyPlayedIds, replacingIds,
                   isLoadingSong, isAddingToQueue, songReq, queueReqs,
                   queueAccepted>>

\* click on the generate button (disabled while isLoadingRecs), up to the await
handleGenerate ==
    /\ LoggedIn
    /\ currentSong # NoId
    /\ ~isLoadingRecs
    /\ nEvents < MaxEvents
    /\ error' = ""
    /\ isLoadingRecs' = TRUE
    /\ addedToQueue' = FALSE
    /\ recommendations' = <<>>
    /\ genReqs' = genReqs + 1
    /\ rejectReqs' = markStale(rejectReqs)
    /\ nEvents' = nEvents + 1
    /\ last' = [op |-> "generate", hit |-> FALSE, stale |-> FALSE,
                moved |-> FALSE]
    /\ UNCHANGED <<browser, sessionId, currentSong, recentlyPlayedIds, replacingIds,
                   isLoadingSong, isAddingToQueue, songReq, queueReqs,
                   queueAccepted>>

\* a continuation that installs the answer back to front
handleGenerateDataReversed(data, rp) ==
    /\ genReqs > 0
    /\ recommendations' = [i \in 1..Len(data) |-> data[Len(data) + 1 - i]]
    /\ recentlyPlayedIds' = orEmpty(rp)
    /\ isLoadingRecs' = FALSE
    /\ genReqs' = genReqs - 1
    /\ last' = [op |-> "setList", hit |-> FALSE, stale |-> FALSE,
                moved |-> FALSE]
    /\ UNCHANGED <<browser, sessionId, currentSong, replacingIds, isLoadingSong,
                   isAddingToQueue, addedToQueue, error, songReq, rejectReqs,
                   queueReqs, queueAccepted, nEvents>>

\* the continuation of handleGenerate for the answer data: setRecommendations(
\* data.recommendations), setRecentlyPlayedIds(... ?? []), finally
handleGenerateData(data, rp) ==
    /\ genReqs > 0
    /\ recommendations' = data
    /\ recentlyPlayedIds' = orEmpty(rp)
    /\ isLoadingRecs' = FALSE
    /\ genReqs' = genReqs - 1
    /\ last' = [op |-> "setList", hit |-> FALSE, stale |-> FALSE,
                moved |-> FALSE]
    /\ UNCHANGED <<browser, sessionId, currentSong, replacingIds, isLoadingSong,
                   isAddingToQueue, addedToQueue, error, songReq, rejectReqs,
                   queueReqs, queueAccepted, nEvents>>

\* the request resolves with some answer of the service
handleGenerateOk ==
    \E data \in RecommendAnswers, rp \in RecentAnswers : handleGenerateData(data, rp)

\* a failure whose handler never clears the loading flag
handleGenerateFailNoFinally ==
    /\ genReqs > 0
    /\ error' = "recs"
    /\ genReqs' = genReqs - 1
    /\ last' = [op |-> "failGenerate", hit |-> FALSE, stale |-> FALSE,
                moved |-> FALSE]
    /\ UNCHANGED <<browser, sessionId, currentSong, recommendations,
                   recentlyPlayedIds, replacingIds, isLoadingSong, isLoadingRecs,
                   isAddingToQueue, addedToQueue, songReq, rejectReqs, queueReqs,
                   queueAccepted, nEvents>>

\* the request fails: catch, finally
handleGenerateFail ==
    /\ genReqs > 0
    /\ error' = "recs"
    /\ isLoadingRecs' = FALSE
    /\ genReqs' = genReqs - 1
    /\ last' = [op |-> "failGenerate", hit |-> FALSE, stale |-> FALSE,
                moved |-> FALSE]
    /\ UNCHANGED <<browser, sessionId, currentSong, recommendations, recentlyPlayedIds,
                   replacingIds, isLoadingSong, isAddingToQueue, addedToQueue,
                   songReq, rejectReqs, queueReqs, queueAccepted, nEvents>>

\* ---------------------------------------------------------------- reject
\* the reject button of the row of trackId is rendered and not disabled
RejectEnabled(trackId) ==
    /\ ListShown
    /\ trackId \in Range(recommendations)
    /\ trackId \notin replacingIds

\* click on a row's reject button (disabled while the row is replacing), up to
\* the await: currentIds and recentlyPlayedIds are those of the render
handleReject(trackId) ==
    /\ RejectEnabled(trackId)
    /\ nEvents < MaxEvents
    /\ replacingIds' = setAdd(replacingIds, trackId)
    /\ \E answer \in RejectAnswers(trackId, recommendations, recentlyPlayedIds) :
          rejectReqs' = rejectReqs (+) SetToBag({RejectReq(trackId, answer)})
    /\ nEvents' = nEvents + 1
    /\ last' = [op |-> "beginReject", hit |-> FALSE, stale |-> FALSE,
                moved |-> FALSE]
    /\ UNCHANGED <<browser, sessionId, currentSong, recommendations, recentlyPlayedIds,
                   isLoadingSong, isLoadingRecs, isAddingToQueue, addedToQueue,
                   error, songReq, genReqs, queueReqs, queueAccepted>>

\* a completion that drops the replacement of a track that a reorder moved
handleRejectOkUnlessMoved(req) ==
    /\ BagIn(req, rejectReqs)
    /\ req.answer # NoId
    /\ recommendations' =
          IF req.moved THEN recommendations
          ELSE replaceById(recommendations, req.trackId, req.answer)
    /\ replacingIds' = setDelete(replacingIds, req.trackId)
    /\ rejectReqs' = rejectReqs (-) SetToBag({req})
    /\ last' = [op |-> "completeReject",
                hit |-> (req.trackId \in Range(recommendations)),
                stale |-> req.stale,
                moved |-> req.moved]
    /\ UNCHANGED <<browser, sessionId, currentSong, recentlyPlayedIds,
                   isLoadingSong, isLoadingRecs, isAddingToQueue, addedToQueue,
                   error, songReq, genReqs, queueReqs, queueAccepted, nEvents>>

\* the request resolves with data.replacement: setRecommendations, finally
handleRejectOk(req) ==
    /\ BagIn(req, rejectReqs)
    /\ req.answer # NoId
    /\ recommendations' = replaceById(recommendations, req.trackId, req.answer)
    /\ replacingIds' = setDelete(replacingIds, req.trackId)
    /\ rejectReqs' = rejectReqs (-) SetToBag({req})
    /\ last' = [op |-> "completeReject",
                hit |-> (req.trackId \in Range(recommendations)),
                stale |-> req.stale,
                moved |-> req.moved]
    /\ UNCHANGED <<browser, sessionId, currentSong, recentlyPlayedIds,
                   isLoadingSong, isLoadingRecs, isAddingToQueue, addedToQueue,
                   error, songReq, genReqs, queueReqs, queueAccepted, nEvents>>

\* a failure whose handler has no finally block
handleRejectFailNoFinally(req) ==
    /\ BagIn(req, rejectReqs)
    /\ req.answer = NoId
    /\ error' = "reject"
    /\ rejectReqs' = rejectReqs (-) SetToBag({req})
    /\ last' = [op |-> "failReject",
                hit |-> (req.trackId \in Range(recommendations)),
                stale |-> req.stale, moved |-> FALSE]
    /\ UNCHANGED <<browser, sessionId, currentSong, recommendations, recentlyPlayedIds,
                   replacingIds, isLoadingSong, isLoadingRecs, isAddingToQueue,
                   addedToQueue, songReq, genReqs, queueReqs, queueAccepted, nEvents>>

\* the request fails: catch, finally
handleRejectFail(req) ==
    /\ BagIn(req, rejectReqs)
    /\ req.answer = NoId
    /\ error' = "reject"
    /\ replacingIds' = setDelete(replacingIds, req.trackId)
    /\ rejectReqs' = rejectReqs (-) SetToBag({req})
    /\ last' = [op |-> "failReject",
                hit |-> (req.trackId \in Range(recommendations)),
                stale |-> req.stale, moved |-> FALSE]
    /\ UNCHANGED <<browser, sessionId, currentSong, recommendations, recentlyPlayedIds,
                   isLoadingSong, isLoadingRecs, isAddingToQueue, addedToQueue,
                   songReq, genReqs, queueReqs, queueAccepted, nEvents>>

\* ---------------------------------------------------------------- add to queue
\* click on the queue button (rendered while not addedToQueue, disabled while
\* isAddingToQueue), up to the await
handleAddToQueue ==
    /\ ListShown
    /\ ~addedToQueue
    /\ ~isAddingToQueue
    /\ nEvents < MaxEvents
    /\ isAddingToQueue' = TRUE
    /\ queueReqs' = queueReqs (+) SetToBag({[trackIds |-> recommendations]})
    /\ nEvents' = nEvents + 1
    /\ last' = [op |-> "addToQueue", hit |-> FALSE, stale |-> FALSE,
                moved |-> FALSE]
    /\ UNCHANGED <<browser, sessionId, currentSong, recommendations, recentlyPlayedIds,
                   replacingIds, isLoadingSong, isLoadingRecs, addedToQueue,
                   error, songReq, genReqs, rejectReqs, queueAccepted>>

\* the external queue accepts the request: setAddedToQueue(true), finally
handleAddToQueueOk(req) ==
    /\ BagIn(req, queueReqs)
    /\ queueAccepted' = req.trackIds
    /\ addedToQueue' = TRUE
    /\ isAddingToQueue' = FALSE
    /\ queueReqs' = queueReqs (-) SetToBag({req})
    /\ last' = [op |-> "commit", hit |-> FALSE, stale |-> FALSE,
                moved |-> FALSE]
    /\ UNCHANGED <<browser, sessionId, currentSong, recommendations, recentlyPlayedIds,
                   replacingIds, isLoadingSong, isLoadingRecs, error, songReq,
                   genReqs, rejectReqs, nEvents>>

\* a failure handled as if the queue had accepted the list
handleAddToQueueFailCommits(req) ==
    /\ BagIn(req, queueReqs)
    /\ error' = "queue"
    /\ addedToQueue' = TRUE
    /\ isAddingToQueue' = FALSE
    /\ queueReqs' = queueReqs (-) SetToBag({req})
    /\ last' = [op |-> "failCommit", hit |-> FALSE, stale |-> FALSE,
                moved |-> FALSE]
    /\ UNCHANGED <<browser, sessionId, currentSong, recommendations, recentlyPlayedIds,
                   replacingIds, isLoadingSong, isLoadingRecs,
                   songReq, genReqs, rejectReqs, queueAccepted, nEvents>>

\* the request fails: catch, finally
handleAddToQueueFail(req) ==
    /\ BagIn(req, queueReqs)
    /\ error' = "queue"
    /\ isAddingToQueue' = FALSE
    /\ queueReqs' = queueReqs (-) SetToBag({req})
    /\ last' = [op |-> "failCommit", hit |-> FALSE, stale |-> FALSE,
                moved |-> FALSE]
    /\ UNCHANGED <<browser, sessionId, currentSong, recommendations, recentlyPlayedIds,
                   replacingIds, isLoadingSong, isLoadingRecs, addedToQueue,
                   songReq, genReqs, rejectReqs, queueAccepted, nEvents>>

\* ---------------------------------------------------------------- reorder
\* handleReorder(newList): setRecommendations(newList); setAddedToQueue(false)
handleReorder(newList) ==
    /\ recommendations' = newList
    /\ addedToQueue' = FALSE

\* onDragEnd of the list: `over` null makes over.id throw after the
\* active.id !== over?.id test passed, and the handler ends without a call
handleDragEnd(active, over) ==
    /\ ListShown
    /\ nEvents < MaxEvents
    /\ nEvents' = nEvents + 1
    /\ IF over # NoId /\ active # over
       THEN /\ handleReorder(arrayMove(recommendations,
                                       findIndex(recommendations, active),
                                       findIndex(recommendations, over)))
            /\ rejectReqs' = markMoved(rejectReqs, recommendations,
                                       recommendations')
            /\ last' = [op |-> "reorder",
                        hit |-> (Range(recommendations') = Range(recommendations)),
                        stale |-> FALSE, moved |-> FALSE]
       ELSE /\ UNCHANGED <<recommendations, addedToQueue, rejectReqs>>
            /\ last' = [op |-> "dragEnd", hit |-> FALSE, stale |-> FALSE,
                moved |-> FALSE]
    /\ UNCHANGED <<browser, sessionId, currentSong, recentlyPlayedIds, replacingIds,
                   isLoadingSong, isLoadingRecs, isAddingToQueue, error, songReq,
                   genReqs, queueReqs, queueAccepted>>

\* ---------------------------------------------------------------- error banner
\* onClick={() => setError(null)} of the banner's close button
dismissError ==
    /\ LoggedIn
    /\ error # ""
    /\ error' = ""
    /\ last' = [op |-> "dismissError", hit |-> FALSE, stale |-> FALSE,
                moved |-> FALSE]
    /\ UNCHANGED <<browser, sessionId, currentSong, recommendations, recentlyPlayedIds,
                   replacingIds, isLoadingSong, isLoadingRecs, isAddingToQueue,
                   addedToQueue, songReq, genReqs, rejectReqs, queueReqs,
                   queueAccepted, nEvents>>

\* ---------------------------------------------------------------- specification
Next ==
    \/ getSessionId
    \/ fetchCurrentSong
    \/ fetchCurrentSongOk
    \/ fetchCurrentSongFail
    \/ handleGenerate
    \/ handleGenerateOk
    \/ handleGenerateFail
    \/ \E trackId \in Ids : handleReject(trackId)
    \/ \E req \in BagToSet(rejectReqs) : handleRejectOk(req)
    \/ \E req \in BagToSet(rejectReqs) : handleRejectFail(req)
    \/ handleAddToQueue
    \/ \E req \in BagToSet(queueReqs) : handleAddToQueueOk(req)
    \/ \E req \in BagToSet(queueReqs) : handleAddToQueueFail(req)
    \/ \E active \in Ids, over \in Ids \cup {NoId} : handleDragEnd(active, over)
    \/ dismissError

Spec == Init /\ [][Next]_vars

\* the client in a tab whose sessionStorage may hold a token already
SpecSession == InitSession /\ [][Next]_vars

\* onReorder of the rendered list invoked with an arbitrary sequence instead of
\* the result of arrayMove
callReorder(newList) ==
    /\ ListShown
    /\ nEvents < MaxEvents
    /\ nEvents' = nEvents + 1
    /\ handleReorder(newList)
    /\ rejectReqs' = markMoved(rejectReqs, recommendations, newList)
    /\ last' = [op |-> "reorder",
                hit |-> (Range(newList) = Range(recommendations)),
                stale |-> FALSE, moved |-> FALSE]
    /\ UNCHANGED <<browser, sessionId, currentSong, recentlyPlayedIds, replacingIds,
                   isLoadingSong, isLoadingRecs, isAddingToQueue, error, songReq,
                   genReqs, queueReqs, queueAccepted>>

NextApi ==
    \/ Next
    \/ \E newList \in SeqsUpTo(Ids, MaxLen) : callReorder(newList)

\* the client with handleReorder also callable directly
SpecApi == Init /\ [][NextApi]_vars

\* ---------------------------------------------------------------- claims
OutstandingRejects == BagToSet(rejectReqs)

\* C1: the track identifiers in the recommendation list are pairwise distinct
\* in every reachable state.
C1_UniqueIds == NoDup(recommendations)

\* C2: whenever addedToQueue is true the list is exactly the sequence the
\* external queue accepted.
C2_CommittedIsQueued == addedToQueue => recommendations = queueAccepted

\* C3: right after a generation result is installed or after a reorder,
\* addedToQueue is false; right after a commit it is true.
C3_FlagComposes ==
    /\ last.op \in {"setList", "reorder"} => ~addedToQueue
    /\ last.op = "commit" => addedToQueue

\* C4: every step that changes the list leaves addedToQueue false.
C4_ChangeResetsCommitted ==
    [][recommendations' # recommendations => ~addedToQueue']_vars

\* C5: a reject completion for a track that is not in the list leaves the list
\* as it is.
C5_AbsentRejectIsNoOp ==
    [][\A req \in OutstandingRejects :
          (handleRejectOk(req) /\ req.trackId \notin Range(recommendations))
             => recommendations' = recommendations]_vars

\* C5 happens: a completion found its track gone from a list a later
\* generation installed.
C5_Witness ==
    /\ last.op = "completeReject"
    /\ ~last.hit
    /\ last.stale
    /\ Len(recommendations) = 2

\* C6: the completion of a reject sent before the latest generation never
\* modifies the list.
C6_StaleRejectDiscarded ==
    [][(last'.op = "completeReject" /\ last'.stale)
          => recommendations' = recommendations]_vars

\* C7: a reject completion puts the replacement at every position k that held
\* the rejected track, keeps every other position and keeps the length.
C7_Positional ==
    [][\A req \in OutstandingRejects :
          handleRejectOk(req) =>
             /\ Len(recommendations') = Len(recommendations)
             /\ \A k \in 1..Len(recommendations) :
                   recommendations[k] = req.trackId =>
                      /\ recommendations'[k] = req.answer
                      /\ \A j \in 1..Len(recommendations) :
                            j # k => recommendations'[j] = recommendations[j]]_vars

\* C8: right after a generation result is installed the Replacing Set is empty.
C8_SetListClearsReplacing == last.op = "setList" => replacingIds = {}

\* C9: the Replacing Set is exactly the set of identifiers with a reject
\* request in flight, and no identifier has two requests in flight.
C9_ReplacingIffOutstanding ==
    /\ replacingIds = {r.trackId : r \in OutstandingRejects}
    /\ \A r \in OutstandingRejects : CopiesIn(r, rejectReqs) = 1
    /\ \A r, q \in OutstandingRejects : r.trackId = q.trackId => r = q

\* C9 happens: one response has been handled while another request is still
\* in flight.
C9_Witness ==
    /\ last.op \in {"completeReject", "failReject"}
    /\ Cardinality(replacingIds) = 1
    /\ Cardinality(OutstandingRejects) = 1

\* C10: a reorder with a sequence whose identifier set differs from the list's
\* leaves the list, addedToQueue and the Replacing Set unchanged.
C10_BadReorderRejected ==
    [][(last'.op = "reorder" /\ ~last'.hit)
          => UNCHANGED <<recommendations, addedToQueue, replacingIds>>]_vars

\* number of positions of s that hold x
Count(s, x) == Cardinality({i \in 1..Len(s) : s[i] = x})

\* a and b hold the same tracks, each as often, in some order
IsPermutation(a, b) ==
    /\ Len(a) = Len(b)
    /\ \A x \in Range(a) \cup Range(b) : Count(a, x) = Count(b, x)

\* C11: whatever pair of active and over a drag ends with (a step of
\* handleDragEnd, which stores a list or stores nothing), the list afterwards
\* is a permutation of the list before the drag.
C11_DragPermutes ==
    [][last'.op \in {"reorder", "dragEnd"}
          => IsPermutation(recommendations', recommendations)]_vars

\* C11 happens: a drag has just stored a list of two tracks in a new order.
C11_Witness ==
    /\ last.op = "reorder"
    /\ Len(recommendations) = 2
    /\ NoDup(recommendations)

\* C12: marking a track as being replaced leaves the list as it is, and
\* marking the same identifier a second time gives the set that marking it
\* once gives, whatever the set was.
C12_BeginRejectIdempotent ==
    [][last'.op = "beginReject"
          => \A trackId \in Ids :
                handleReject(trackId)
                   => /\ recommendations' = recommendations
                      /\ trackId \in replacingIds'
                      /\ setAdd(replacingIds', trackId) = replacingIds'
                      /\ \A prev \in SUBSET Ids :
                            setAdd(setAdd(prev, trackId), trackId)
                               = setAdd(prev, trackId)]_vars

\* C12 happens: a reject has just begun while another track was already marked.
C12_Witness ==
    /\ last.op = "beginReject"
    /\ Cardinality(replacingIds) = 2

\* C13: when a reject request fails, its track leaves the replacing set, the
\* list keeps its contents and order, and the reject button of the track, if
\* the track is still shown, is enabled again.
C13_FailRejectRestores ==
    [][last'.op = "failReject"
          => \A req \in OutstandingRejects :
                handleRejectFail(req)
                   => /\ req.trackId \notin replacingIds'
                      /\ recommendations' = recommendations
                      /\ (req.trackId \in Range(recommendations)
                             => RejectEnabled(req.trackId)')]_vars

\* C13 happens: a reject of a track that is still shown has just failed and
\* every row can be rejected again.
C13_Witness ==
    /\ last.op = "failReject"
    /\ last.hit
    /\ ListShown
    /\ \A id \in Range(recommendations) : RejectEnabled(id)

\* C14: addedToQueue turns true only in the step that handles an accepted
\* queue request; the step that handles a failed one leaves addedToQueue and
\* the list as they were and ends with isAddingToQueue false.
C14_CommitOnlyOnSuccess ==
    [][/\ (~addedToQueue /\ addedToQueue')
             => \E req \in BagToSet(queueReqs) : handleAddToQueueOk(req)
       /\ \A req \in BagToSet(queueReqs) :
             handleAddToQueueFail(req)
                => /\ addedToQueue' = addedToQueue
                   /\ ~addedToQueue'
                   /\ recommendations' = recommendations
                   /\ ~isAddingToQueue']_vars

\* C14 happens: a queue request has just failed, the list is still shown and
\* the queue button is back.
C14_Witness ==
    /\ last.op = "failCommit"
    /\ ListShown
    /\ ~addedToQueue
    /\ ~isAddingToQueue
    /\ error = "queue"

\* C15: never more than one generation request is in flight, and the generate
\* button is disabled exactly while one is.
C15_OneGeneration ==
    /\ genReqs <= 1
    /\ isLoadingRecs <=> (genReqs = 1)

\* C15 happens: a second generation was started after the first was handled.
C15_Witness ==
    /\ last.op = "generate"
    /\ genReqs = 1
    /\ nEvents >= 2
    /\ isLoadingRecs

\* C16: a reorder leaves the rejects in flight as they are, and the completion
\* of a reject writes the replacement at the index the rejected track has in
\* the list of that moment, also when a reorder has moved the track since the
\* request was sent, and keeps every other track.
C16_RejectFollowsTrack ==
    [][/\ last'.op = "completeReject"
             => \A req \in OutstandingRejects :
                   handleRejectOk(req) =>
                      LET k == findIndex(recommendations, req.trackId)
                      IN  /\ Len(recommendations') = Len(recommendations)
                          /\ k >= 0 => recommendations'[k + 1] = req.answer
                          /\ \A i \in 1..Len(recommendations) :
                                recommendations[i] # req.trackId
                                   => recommendations'[i] = recommendations[i]
       /\ (last'.op = "reorder" /\ OutstandingRejects # {})
             => /\ replacingIds' = replacingIds
                /\ BagCardinality(rejectReqs') = BagCardinality(rejectReqs)]_vars

\* C16 happens: a reject sent before a reorder, of a track that the reorder
\* moved to another index, has just put its replacement in the list.
C16_Witness ==
    /\ last.op = "completeReject"
    /\ last.hit
    /\ last.moved
    /\ ~last.stale

\* the list after the response of req has been handled
listAfter(list, req) ==
    IF req.answer = NoId THEN list
    ELSE replaceById(list, req.trackId, req.answer)

\* C17: for any two rejects of distinct tracks that are in flight together,
\* handling the two responses in one order or the other ends with the same
\* list and the same replacing set.
C17_RejectsCommute ==
    \A r, q \in OutstandingRejects :
       r.trackId # q.trackId
          => /\ listAfter(listAfter(recommendations, r), q)
                   = listAfter(listAfter(recommendations, q), r)
             /\ setDelete(setDelete(replacingIds, r.trackId), q.trackId)
                   = setDelete(setDelete(replacingIds, q.trackId), r.trackId)

\* C18: while the URL carries no session parameter and nothing is persisted,
\* sessionId is null, only the login page is rendered, and no request (current
\* song, recommend, reject, add to queue) is or has been in flight.
C18_NoSessionNoCalls ==
    (location = "" /\ storage = "")
       => /\ sessionId = ""
          /\ ~LoggedIn
          /\ songReq = "unsent"
          /\ genReqs = 0
          /\ rejectReqs = EmptyBag
          /\ queueReqs = EmptyBag
          /\ nEvents = 0
          /\ last.op \in {"init", "getSessionId"}

\* C18 happens: App has rendered with no session parameter and nothing stored.
C18_Witness ==
    /\ mounted
    /\ last.op = "getSessionId"
    /\ location = ""
    /\ storage = ""
    /\ sessionId = ""

\* C19: the first render takes the token from the URL when the URL carries
\* one, whatever was persisted, persists it and takes it out of the URL;
\* otherwise the token is the persisted one, or null, and nothing is written.
C19_SessionResolution ==
    [][getSessionId
          => IF location # ""
             THEN /\ sessionId' = location
                  /\ storage' = location
                  /\ location' = ""
             ELSE /\ sessionId' = storage
                  /\ storage' = storage
                  /\ location' = ""]_vars

\* C19 happens: the token of the URL has just replaced a persisted one.
C19_Witness ==
    /\ last.op = "getSessionId"
    /\ last.hit
    /\ sessionId = "tok"
    /\ storage = "tok"
    /\ location = ""

\* C20: every failed request (current song, recommendations, reject, add to
\* queue) is handled by a step that puts its message in the one error state,
\* clears the in-progress indicator of the operation and leaves the session,
\* the current song and the list as they were.
C20_FailuresBecomeBanner ==
    [][last'.op \in {"failCurrentSong", "failGenerate", "failReject", "failCommit"}
          => /\ fetchCurrentSongFail => (error' = "song" /\ ~isLoadingSong')
             /\ handleGenerateFail => (error' = "recs" /\ ~isLoadingRecs')
             /\ \A req \in OutstandingRejects :
                   handleRejectFail(req)
                      => (error' = "reject" /\ req.trackId \notin replacingIds')
             /\ \A req \in BagToSet(queueReqs) :
                   handleAddToQueueFail(req)
                      => (error' = "queue" /\ ~isAddingToQueue')
             /\ error' # ""
             /\ LoggedIn'
             /\ UNCHANGED <<sessionId, currentSong, recommendations>>]_vars

\* C20 happens: a recommendation request has just failed; the banner shows
\* its message and the generate button is enabled again.
C20_Witness ==
    /\ last.op = "failGenerate"
    /\ error = "recs"
    /\ ~isLoadingRecs
    /\ genReqs = 0

\* C21: a generation is triggered only with a current song; the step empties
\* the list, clears the error and puts exactly one recommendation request in
\* flight; the step that installs a list is the handling of the answer that
\* is this very sequence, in this order.
C21_GenerateReplacesList ==
    [][/\ last'.op = "generate"
             => /\ currentSong # NoId
                /\ recommendations' = <<>>
                /\ error' = ""
                /\ genReqs = 0
                /\ genReqs' = 1
       /\ last'.op = "setList"
             => /\ genReqs = 1
                /\ genReqs' = 0
                /\ \E rp \in RecentAnswers :
                      handleGenerateData(recommendations', rp)]_vars

\* C21 happens: a generation triggered after another user event has just
\* installed its answer of two tracks.
C21_Witness ==
    /\ last.op = "setList"
    /\ nEvents >= 2
    /\ Len(recommendations) = 2
    /\ error = ""
    /\ genReqs = 0

====
